---- MODULE Spec2Model ----
(***************************************************************************)
(* Model of src/main.rs of fhe_game_of_life: the shortint lookup-table     *)
(* survival rule (is_alive, is_alive_4b, is_alive_5b) and the toroidal     *)
(* Board (new, update).  A ciphertext is modelled by the plaintext it      *)
(* carries in the message*carry space of the server key.                   *)
(***************************************************************************)
EXTENDS Integers, Sequences, FiniteSets, TLC

VARIABLES pc, args, sks, dimensions, states, new_states, indices,
          pending, slots, gen, ops, call, ret

vars == <<pc, args, sks, dimensions, states, new_states, indices,
          pending, slots, gen, ops, call, ret>>

(* ---------------- bounds of the model ---------------- *)
MaxLen == 5
MaxCols == 3
MaxGen == 2
MaxDim == 4

(* ---------------- server keys (parameter regimes) ---------------- *)
Key(m, c) == [message_modulus |-> m, carry_modulus |-> c]

\* the (message_modulus, carry_modulus) arms of the match in is_alive
Regimes4b == {Key(16, 1), Key(2, 8)}
Regimes5b == {Key(2, 16), Key(16, 2), Key(32, 1)}
SupportedRegimes == Regimes4b \cup Regimes5b
\* keys that fall into the `_ => panic!` arm: capacity 4, 8 and 16
OtherRegimes == {Key(2, 2), Key(4, 2), Key(4, 4)}
AllRegimes == SupportedRegimes \cup OtherRegimes

Capacity(k) == k.message_modulus * k.carry_modulus

(* ---------------- tfhe::shortint primitives used by main.rs ---------------- *)
\* unchecked_add_assign: plain addition in the message*carry space, carries
\* are not cleaned and nothing is checked
unchecked_add(k, a, b) == (a + b) % Capacity(k)

\* scalar_mul is a *default* operation of tfhe::shortint: its result has an
\* empty carry, it is the table x -> (scalar * x) % message_modulus
scalar_mul(k, ct, scalar) == (scalar * ct) % k.message_modulus

\* let factor = 16;
factor == 16

\* left-to-right accumulation: neighbours[0].clone(), then += neighbours[1..]
\* <<value, TRUE iff some addition left the message*carry space>>
RECURSIVE add_from(_, _, _, _)
add_from(k, acc, neighbours, n) ==
    IF n > Len(neighbours) THEN acc
    ELSE add_from(k,
                  <<unchecked_add(k, acc[1], neighbours[n]),
                    acc[2] \/ (acc[1] + neighbours[n] >= Capacity(k))>>,
                  neighbours, n + 1)

sum_neighbours(k, neighbours) == add_from(k, <<neighbours[1], FALSE>>, neighbours, 2)

\* lut1 of is_alive_4b
lut1_4b(x) == IF x = 2 \/ x = 3 THEN x - 1 ELSE 0

\* lut2 of is_alive_4b
lut2_4b(x) == IF x = 2 \/ x = 3 THEN 1 ELSE 0

\* lut1 of is_alive_5b with the birth test written <= 3
lut1_5b_le(x) ==
    LET c == x \div factor
        num_n == x % factor
    IN  IF num_n <= 3 \/ (c = 1 /\ num_n = 2) THEN 1 ELSE 0

\* lut1 of is_alive_5b
lut1_5b(x) ==
    LET c == x \div factor
        num_n == x % factor
    IN  IF num_n = 3 \/ (c = 1 /\ num_n = 2) THEN 1 ELSE 0

\* is_alive_4b, with every intermediate value it computes
is_alive_4b_trace(k, cell, neighbours) ==
    LET s      == sum_neighbours(k, neighbours)
        marker == lut1_4b(s[1]) % Capacity(k)
        comb   == unchecked_add(k, marker, cell)
    IN  [layout   |-> "4b",
         sum      |-> s[1],
         marker   |-> marker,
         combined |-> comb,
         overflow |-> s[2] \/ (marker + cell >= Capacity(k)),
         out      |-> lut2_4b(comb) % Capacity(k)]

is_alive_4b(k, cell, neighbours) == is_alive_4b_trace(k, cell, neighbours).out

\* assert!(sks.message_modulus.0 * sks.carry_modulus.0 >= 32)
assert_5b(k) == Capacity(k) >= 32

\* is_alive_5b, with every intermediate value it computes
is_alive_5b_trace(k, cell, neighbours) ==
    LET s       == sum_neighbours(k, neighbours)
        shifted == scalar_mul(k, cell, factor)
        packed  == unchecked_add(k, s[1], shifted)
    IN  [layout   |-> "5b",
         sum      |-> s[1],
         shifted  |-> shifted,
         combined |-> packed,
         overflow |-> s[2] \/ (s[1] + shifted >= Capacity(k)),
         out      |-> lut1_5b(packed) % Capacity(k)]

is_alive_5b(k, cell, neighbours) == is_alive_5b_trace(k, cell, neighbours).out

\* the match of is_alive: TRUE iff the call panics
is_alive_panics(k) ==
    \/ k \notin SupportedRegimes
    \/ (k \in Regimes5b /\ ~assert_5b(k))

is_alive_trace(k, cell, neighbours) ==
    IF k \in Regimes4b THEN is_alive_4b_trace(k, cell, neighbours)
    ELSE is_alive_5b_trace(k, cell, neighbours)

is_alive(k, cell, neighbours) == is_alive_trace(k, cell, neighbours).out

(* ---------------- Board ---------------- *)
\* itertools::iproduct!(0..n_rows, 0..n_cols), row-major
iproduct(n_rows, n_cols) ==
    [p \in 1..(n_rows * n_cols) |-> <<(p - 1) \div n_cols, (p - 1) % n_cols>>]

\* neighbour_coords with the lower edge clamped instead of wrapped
neighbour_coords_clamped(nx, ny, i, j) ==
    LET im == IF i = 0 THEN nx - 1 ELSE i - 1
        ip == IF i = nx - 1 THEN nx - 1 ELSE i + 1
        jm == IF j = 0 THEN ny - 1 ELSE j - 1
        jp == IF j = ny - 1 THEN 0 ELSE j + 1
    IN  << <<im, jm>>, <<im, j>>, <<im, jp>>,
           <<i, jm>>,             <<i, jp>>,
           <<ip, jm>>, <<ip, j>>, <<ip, jp>> >>

\* the eight neighbour coordinates of (i, j), in the order n1..n8
neighbour_coords(nx, ny, i, j) ==
    LET im == IF i = 0 THEN nx - 1 ELSE i - 1
        ip == IF i = nx - 1 THEN 0 ELSE i + 1
        jm == IF j = 0 THEN ny - 1 ELSE j - 1
        jp == IF j = ny - 1 THEN 0 ELSE j + 1
    IN  << <<im, jm>>, <<im, j>>, <<im, jp>>,
           <<i, jm>>,             <<i, jp>>,
           <<ip, jm>>, <<ip, j>>, <<ip, jp>> >>

\* flat index r * ny + c (0-based, as in the source)
flat(ny, p) == p[1] * ny + p[2]

\* the neighbour references &self.states[..] handed to is_alive
neighbour_refs(st, nx, ny, i, j) ==
    LET nb == neighbour_coords(nx, ny, i, j)
    IN  [n \in 1..8 |-> st[flat(ny, nb[n]) + 1]]

\* the closure of the parallel map in Board::update
map_closure(st, nx, ny, k, i, j) ==
    is_alive(k, st[flat(ny, <<i, j>>) + 1], neighbour_refs(st, nx, ny, i, j))

Null == "null"

\* a slot of the vector collect_into_vec fills: <<>> until written, then <<v>>
Unwritten == <<>>

\* write_slot with every worker writing the first slot
write_slot_first(sl, p, v) == [sl EXCEPT ![1] = <<v>>]

\* collect_into_vec: the worker of work item p writes the slot of its own index
write_slot(sl, p, v) == [sl EXCEPT ![p] = <<v>>]

\* the vector collect_into_vec hands over once every slot is written
collected(sl) == [p \in 1..Len(sl) |-> sl[p][1]]

Bit == {0, 1}

NoCall == [fn |-> "none"]

(* ---------------- the board's life cycle ---------------- *)
Init ==
    /\ pc = "new"
    /\ \E len \in 0..MaxLen, n_cols \in 1..MaxCols, k \in AllRegimes :
         \E st \in [1..len -> Bit] :
            args = [n_cols |-> n_cols, states |-> st, sks |-> k]
    /\ sks = Key(0, 0)
    /\ dimensions = <<0, 0>>
    /\ states = <<>>
    /\ new_states = <<>>
    /\ indices = <<>>
    /\ pending = {}
    /\ slots = <<>>
    /\ gen = 0
    /\ ops = 0
    /\ call = NoCall
    /\ ret = Null

\* Board::new
BoardNew ==
    /\ pc = "new"
    /\ LET n_rows == Len(args.states) \div args.n_cols
       IN  /\ dimensions' = <<n_rows, args.n_cols>>
           /\ indices' = iproduct(n_rows, args.n_cols)
    /\ states' = args.states
    /\ new_states' = <<>>
    /\ sks' = args.sks
    /\ pc' = "idle"
    /\ UNCHANGED <<args, pending, slots, gen, ops, call, ret>>

\* Board::update up to the dispatch of the parallel iterator
UpdateStart ==
    /\ pc = "idle"
    /\ gen < MaxGen
    /\ new_states' = <<>>
    /\ pending' = 1..Len(indices)
    /\ slots' = [p \in 1..Len(indices) |-> Unwritten]
    /\ pc' = "updating"
    /\ UNCHANGED <<args, sks, dimensions, states, indices, gen, ops, call, ret>>

\* one work item of the parallel map, on a key is_alive accepts
Worker(p) ==
    /\ pc = "updating"
    /\ p \in pending
    /\ ~is_alive_panics(sks)
    /\ slots' = write_slot(slots, p,
                    map_closure(states, dimensions[1], dimensions[2], sks,
                                indices[p][1], indices[p][2]))
    /\ pending' = pending \ {p}
    /\ ops' = 1
    /\ UNCHANGED <<pc, args, sks, dimensions, states, new_states, indices, gen, call, ret>>

\* one work item of the parallel map, on a key is_alive rejects: panic!
WorkerPanic(p) ==
    /\ pc = "updating"
    /\ p \in pending
    /\ is_alive_panics(sks)
    /\ pc' = "panicked"
    /\ UNCHANGED <<args, sks, dimensions, states, new_states, indices,
                   pending, slots, gen, ops, call, ret>>

\* every work item has returned: the collected vector becomes new_states,
\* then std::mem::swap(&mut self.new_states, &mut self.states)
UpdateFinish ==
    /\ pc = "updating"
    /\ pending = {}
    /\ \A p \in 1..Len(slots) : slots[p] # Unwritten
    /\ states' = collected(slots)
    /\ new_states' = states
    /\ gen' = gen + 1
    /\ pc' = "idle"
    /\ UNCHANGED <<args, sks, dimensions, indices, pending, slots, ops, call, ret>>

Next ==
    \/ BoardNew
    \/ UpdateStart
    \/ \E p \in pending : Worker(p)
    \/ \E p \in pending : WorkerPanic(p)
    \/ UpdateFinish

Spec == Init /\ [][Next]_vars

(* ---------------- is_alive on one cell and its eight neighbours ---------------- *)
InitRule ==
    /\ pc = "call"
    /\ \E k \in AllRegimes, cell \in Bit :
         \E nb \in [1..8 -> Bit] :
            call = [fn |-> "is_alive", sks |-> k, cell |-> cell, neighbours |-> nb]
    /\ ret = Null
    /\ args = [n_cols |-> 1, states |-> <<>>, sks |-> Key(0, 0)]
    /\ sks = Key(0, 0)
    /\ dimensions = <<0, 0>>
    /\ states = <<>>
    /\ new_states = <<>>
    /\ indices = <<>>
    /\ pending = {}
    /\ slots = <<>>
    /\ gen = 0
    /\ ops = 0

\* is_alive returns the ciphertext of one of the two layouts
IsAliveReturn ==
    /\ pc = "call"
    /\ call.fn = "is_alive"
    /\ ~is_alive_panics(call.sks)
    /\ ret' = is_alive_trace(call.sks, call.cell, call.neighbours)
    /\ pc' = "returned"
    /\ UNCHANGED <<args, sks, dimensions, states, new_states, indices,
                   pending, slots, gen, ops, call>>

\* is_alive reaches panic!("not supported")
IsAlivePanic ==
    /\ pc = "call"
    /\ call.fn = "is_alive"
    /\ is_alive_panics(call.sks)
    /\ pc' = "panicked"
    /\ UNCHANGED <<args, sks, dimensions, states, new_states, indices,
                   pending, slots, gen, ops, call, ret>>

NextRule ==
    \/ IsAliveReturn
    \/ IsAlivePanic

SpecRule == InitRule /\ [][NextRule]_vars

(* ---------------- the neighbour indices of one cell ---------------- *)
InitNbr ==
    /\ pc = "call"
    /\ \E nx \in 1..MaxDim, ny \in 1..MaxDim :
         \E i \in 0..(nx - 1), j \in 0..(ny - 1) :
            call = [fn |-> "neighbours", nx |-> nx, ny |-> ny, i |-> i, j |-> j]
    /\ ret = Null
    /\ args = [n_cols |-> 1, states |-> <<>>, sks |-> Key(0, 0)]
    /\ sks = Key(0, 0)
    /\ dimensions = <<0, 0>>
    /\ states = <<>>
    /\ new_states = <<>>
    /\ indices = <<>>
    /\ pending = {}
    /\ slots = <<>>
    /\ gen = 0
    /\ ops = 0

\* the index computation at the head of the closure in Board::update
Neighbours ==
    /\ pc = "call"
    /\ call.fn = "neighbours"
    /\ ret' = neighbour_coords(call.nx, call.ny, call.i, call.j)
    /\ pc' = "returned"
    /\ UNCHANGED <<args, sks, dimensions, states, new_states, indices,
                   pending, slots, gen, ops, call>>

NextNbr == Neighbours

SpecNbr == InitNbr /\ [][NextNbr]_vars

(* ---------------- plaintext reference ---------------- *)
RECURSIVE SumSeq(_, _)
SumSeq(s, n) == IF n = 0 THEN 0 ELSE s[n] + SumSeq(s, n - 1)

\* number of live neighbours
Count8(nb) == SumSeq(nb, 8)

\* Conway's rule
LifeRule(cell, count) == IF count = 3 \/ (cell = 1 /\ count = 2) THEN 1 ELSE 0

Offsets == {d \in {-1, 0, 1} \X {-1, 0, 1} : d # <<0, 0>>}

RECURSIVE SumOver(_, _, _, _, _, _)
SumOver(st, rows, cols, i, j, ds) ==
    IF ds = {} THEN 0
    ELSE LET d == CHOOSE x \in ds : TRUE
         IN  st[((i + d[1] + rows) % rows) * cols + ((j + d[2] + cols) % cols) + 1]
             + SumOver(st, rows, cols, i, j, ds \ {d})

\* the rule applied to cell (i, j) of st and its eight wrapped neighbours
PlainNext(st, rows, cols, i, j) ==
    LifeRule(st[i * cols + j + 1], SumOver(st, rows, cols, i, j, Offsets))

\* sequential row-major processing of the work items over the buffer st (the
\* sequential variant of the map kept in the source as a comment)
RECURSIVE SequentialMap(_, _, _, _, _)
SequentialMap(st, dims, k, idx, n) ==
    IF n = 0 THEN <<>>
    ELSE Append(SequentialMap(st, dims, k, idx, n - 1),
                map_closure(st, dims[1], dims[2], k, idx[n][1], idx[n][2]))

AllDead(st) == \A p \in 1..Len(st) : st[p] = 0

Rows == dimensions[1]
Cols == dimensions[2]

(* ======================= the claims ======================= *)

\* C1: on a well-formed board (rows >= 1, states.len() = rows * cols, cells
\* 0 or 1) under a supported key, one Board::update leaves at every flat
\* index i * cols + j the plaintext rule applied to the pre-update cell and
\* its eight wrapped pre-update neighbours.  After the swap new_states holds
\* the pre-update buffer.
C1_UpdateIsLifeStep ==
    (/\ pc = "idle"
     /\ gen >= 1
     /\ sks \in SupportedRegimes
     /\ Rows >= 1
     /\ Len(new_states) = Rows * Cols)
    => /\ Len(states) = Rows * Cols
       /\ \A i \in 0..(Rows - 1), j \in 0..(Cols - 1) :
            states[i * Cols + j + 1] = PlainNext(new_states, Rows, Cols, i, j)

\* C2: for each of the five keys is_alive accepts, every cell value and every
\* eight neighbour values, is_alive returns 1 iff count = 3 or (cell = 1 and
\* count = 2).
C2_RuleOnEveryRegime ==
    (pc = "returned" /\ call.fn = "is_alive")
    => ret.out = LifeRule(call.cell, Count8(call.neighbours))

\* C3: the two table layouts agree: whatever is_alive_5b returned for a cell
\* and its neighbours under a key of its own, is_alive_4b returns under each
\* key of its own.
C3_LayoutsAgree ==
    (pc = "returned" /\ call.fn = "is_alive" /\ call.sks \in Regimes5b)
    => \A k4 \in Regimes4b :
         ret.out = is_alive_4b(k4, call.cell, call.neighbours)

\* C4: Board::new fails with DimensionMismatch whenever the length of the
\* initial sequence is not a multiple of the column count, and yields a board
\* only when it is.
C4_NewRejectsMismatch ==
    (pc # "new" /\ call.fn = "none")
    => IF Len(args.states) % args.n_cols = 0
       THEN pc # "DimensionMismatch"
       ELSE pc = "DimensionMismatch"

\* C5: with a key that is none of the recognised layouts the run fails before
\* any homomorphic operation is issued and no new generation is ever
\* published as the board's state.
C5_UnsupportedNeverPublishes ==
    (pc # "new" /\ call.fn = "none" /\ sks \notin SupportedRegimes)
    => (ops = 0 /\ gen = 0)

\* what C6 says of every state of an update on a key is_alive accepts: every
\* slot of the next buffer is either still unwritten with its work item
\* pending, or holds the value its own work item computed from the
\* generation-n buffer states; and once the update has returned, the board
\* is the sequential row-major map over the previous buffer (which the swap
\* left in new_states).
C6_StatePart ==
    (call.fn = "none" /\ ~is_alive_panics(sks))
    => /\ pc = "updating" =>
            /\ Len(slots) = Len(indices)
            /\ pending \subseteq 1..Len(indices)
            /\ \A p \in 1..Len(indices) :
                 IF p \in pending THEN slots[p] = Unwritten
                 ELSE slots[p] = <<map_closure(states, Rows, Cols, sks,
                                               indices[p][1], indices[p][2])>>
       /\ (pc = "idle" /\ gen >= 1) =>
            states = SequentialMap(new_states, dimensions, sks, indices, Len(indices))

\* what C6 says of every step: the board's buffer changes only in the step
\* that ends an update whose work items have all completed, and that step
\* swaps the buffers
C6_StepPart ==
    (pc # "new" /\ states' # states)
    => /\ pc = "updating"
       /\ pending = {}
       /\ pc' = "idle"
       /\ new_states' = states

\* C6: under every interleaving of the work items of one Board::update each
\* worker reads only the generation-n buffer and writes only the slot of its
\* own index, no slot is written twice, the resulting board equals
\* sequential row-major processing, and the buffers are swapped only after
\* every work item has completed.
C6_ParallelEqualsSequential == [](C6_StatePart) /\ [][C6_StepPart]_vars

C6_Witness ==
    /\ pc = "idle"
    /\ gen >= 2
    /\ ~is_alive_panics(sks)
    /\ Len(indices) >= 4
    /\ states # new_states
    /\ ~AllDead(states)

\* C7: in every state of a Board (after Board::new and after any number of
\* updates) states.len() = rows * cols, and update never changes dimensions.
C7_LenIsRowsTimesCols ==
    (pc # "new" /\ call.fn = "none")
    => /\ Len(states) = Rows * Cols
       /\ dimensions = <<Len(args.states) \div args.n_cols, args.n_cols>>

\* the eight positions handed back for the cell (call.i, call.j)
InBounds8 ==
    \A n \in 1..8 : /\ ret[n][1] \in 0..(call.nx - 1)
                    /\ ret[n][2] \in 0..(call.ny - 1)
                    /\ flat(call.ny, ret[n]) \in 0..(call.nx * call.ny - 1)
Distinct8 == \A m, n \in 1..8 : m # n => ret[m] # ret[n]
NotSelf8 == \A n \in 1..8 : ret[n] # <<call.i, call.j>>

\* C8 as stated: on every R x C board the eight neighbour positions of every
\* cell are pairwise distinct, in bounds and different from the cell itself.
C8_EightDistinctAnyBoard ==
    (pc = "returned" /\ call.fn = "neighbours")
    => (InBounds8 /\ Distinct8 /\ NotSelf8)

\* C8 amended: the eight positions are in bounds on every board; they are
\* pairwise distinct and different from the cell itself exactly when the
\* board has at least three rows and three columns.
C8_EightDistinctFrom3x3 ==
    (pc = "returned" /\ call.fn = "neighbours")
    => /\ InBounds8
       /\ (call.nx >= 3 /\ call.ny >= 3) <=> (Distinct8 /\ NotSelf8)

C8_Witness ==
    /\ pc = "returned"
    /\ call.fn = "neighbours"
    /\ call.nx >= 3
    /\ call.ny >= 3
    /\ call.i = 0
    /\ call.j = 0
    /\ ret[1] = <<call.nx - 1, call.ny - 1>>

\* C9: extinction is absorbing: from a board whose every cell is 0, under any
\* supported key, every cell is 0 after any number of updates (and every
\* value a work item writes is 0).
C9_ExtinctionAbsorbing ==
    (/\ pc \in {"idle", "updating"}
     /\ call.fn = "none"
     /\ sks \in SupportedRegimes
     /\ AllDead(args.states))
    => /\ AllDead(states)
       /\ pc = "updating" => \A p \in 1..Len(slots) : slots[p] \in {Unwritten, <<0>>}

C9_Witness ==
    /\ pc = "idle"
    /\ gen >= 2
    /\ sks \in Regimes5b
    /\ Len(states) >= 4
    /\ AllDead(args.states)
    /\ AllDead(states)

\* C10: under every supported key no addition of is_alive leaves the
\* message * carry space, the neighbour sum is the number of live neighbours,
\* the 4b value is marker + cell, and the packed 5b value is exactly
\* 16 * cell + sum, so x / 16 and x % 16 give back the cell and the sum.
C10_NoWrapAndExactPacking ==
    (pc = "returned" /\ call.fn = "is_alive")
    => /\ ~ret.overflow
       /\ ret.sum = Count8(call.neighbours)
       /\ ret.combined < Capacity(call.sks)
       /\ ret.layout = "4b" => ret.combined = ret.marker + call.cell
       /\ ret.layout = "5b" =>
            /\ ret.combined = factor * call.cell + Count8(call.neighbours)
            /\ ret.combined \div factor = call.cell
            /\ ret.combined % factor = Count8(call.neighbours)

====
